---------------------------- MODULE Spec2Model ----------------------------
(***************************************************************************)
(* A model of cocoa (dsi-clinic/cocoa): the syntax-tree checks of          *)
(* linting.py, the ruff-output truncation and the notebook and script      *)
(* analysis of evaluate_repo.py, and the notebook metrics of notebooks.py. *)
(*                                                                         *)
(* Python values are modelled as follows.  A syntax-tree node is a record  *)
(* with a "type" field naming its ast class and the fields that class      *)
(* has; an attribute a class lacks is a field the record lacks, so that    *)
(* reading it is the AttributeError of the source.  None, True and False   *)
(* returned by a function are the strings "None", "True" and "False".      *)
(* A text that is examined character by character is a sequence of         *)
(* one-character strings.                                                  *)
(***************************************************************************)
EXTENDS Integers, Sequences, FiniteSets, TLC

VARIABLES
    script,      \* SpecAst: the source lines of the script under check
    call,        \* SpecAst: the last structural check applied and its outcome
    rawOutput,   \* SpecRuff: the text an external tool wrote
    truncation,  \* SpecRuff: the results of process_ruff_results on it
    errors,        \* SpecRemap: the findings reported against a derived file
    original_path, \* SpecRemap: the path of the file it was derived from
    remapped,      \* SpecRemap: the result of convert_temp_names_to_originals
    notebook,    \* SpecNotebook: the notebook file under analysis
    nbCall,      \* SpecNotebook: the last function applied to it and its outcome
    files,       \* SpecRun: files_to_process
    verbose_flag, \* SpecRun: the verbose flag of the run
    pos,         \* SpecRun: the position in files of the file the loop is at
    status,      \* SpecRun: walking, done, or crashed by an uncaught exception
    stdout,      \* SpecRun: the lines printed so far
    dispatched,  \* SpecRun: the positions of the files handed to an analyzer
    analyses,    \* SpecRun: per file handed over, the tool's text and the outcome
    findings,    \* SpecPrint: the results of one tool for a file
    presented,   \* SpecPrint: what print_results printed for them
    worktree,    \* SpecDiscover: the files of the working tree
    commits,     \* SpecDiscover: the commits of the repository, newest first
    date_filter, \* SpecDiscover: the start date of the run, or None
    request,     \* SpecEvaluate: the arguments of the call of evaluate_repo
    stack,       \* SpecEvaluate: the calls of evaluate_repo under way
    checkout,    \* SpecEvaluate: the branches of the local repository
    events,      \* SpecEvaluate: what the calls did, in order
    frame        \* SpecSteps: the analyzer under way, its position and locals

astVars  == <<script, call>>
ruffVars == <<rawOutput, truncation>>
remapVars == <<errors, original_path, remapped>>
nbVars == <<notebook, nbCall>>
runVars == <<files, verbose_flag, pos, status, stdout, dispatched, analyses>>
printVars == <<findings, presented>>
discoverVars == <<worktree, commits, date_filter>>
evalVars == <<request, stack, checkout, events>>
stepVars == <<frame>>
vars == <<astVars, ruffVars, remapVars, nbVars, runVars,
          printVars, discoverVars, evalVars, stepVars>>

\* The value of a variable in a specification that does not use it.
Idle == "idle"

(***************************************************************************)
(* Bounds of the model.                                                    *)
(***************************************************************************)
MaxStmts == 3    \* statements in a script
MaxDepth == 2    \* deepest nesting of a statement
MaxLines == 3    \* lines of a tool output
MaxErrors == 2   \* findings in a list to convert
MaxCells == 12   \* cells of a notebook
MaxFiles == 2    \* files to process in a run
MaxCellLines == 16   \* repeated source lines of a cell

NoCall == [fn |-> "none"]

-----------------------------------------------------------------------------
(***************************************************************************)
(* Scripts.  A script is its statements in source order, each with its     *)
(* indentation depth; ast.parse turns it into a tree or raises             *)
(* SyntaxError.                                                            *)
(***************************************************************************)
Alias(name, asname) == [type |-> "alias", name |-> name, asname |-> asname]
Constant(kind, value) == [type |-> "Constant", kind |-> kind, value |-> value]
Name(id) == [type |-> "Name", id |-> id]
Compare(left, op, right) ==
    [type |-> "Compare", left |-> left, ops |-> <<op>>, comparators |-> <<right>>]

SimpleStmts ==
    { [type |-> "Import", names |-> <<Alias("subprocess", "None")>>],
      [type |-> "Import", names |-> <<Alias("os", "None"), Alias("subprocess", "sp")>>],
      [type |-> "Import", names |-> <<Alias("os", "None")>>],
      [type |-> "ImportFrom", module |-> "subprocess", names |-> <<Alias("run", "None")>>],
      [type |-> "ImportFrom", module |-> "os", names |-> <<Alias("subprocess", "None")>>],
      [type |-> "Expr", value |-> Constant("str", "doc")],
      [type |-> "Expr", value |-> Constant("int", "5")],
      [type |-> "Expr", value |-> [type |-> "Call"]],
      [type |-> "Assign", value |-> Constant("int", "5")] }

CompoundStmts ==
    { [type |-> "FunctionDef", name |-> "f", body |-> <<>>],
      [type |-> "AsyncFunctionDef", name |-> "g", body |-> <<>>],
      [type |-> "ClassDef", name |-> "K", body |-> <<>>],
      [type |-> "If", body |-> <<>>,
       test |-> Compare(Name("__name__"), "Eq", Constant("str", "__main__"))],
      [type |-> "If", body |-> <<>>,
       test |-> Compare(Name("__name__"), "NotEq", Constant("str", "__main__"))],
      [type |-> "For", body |-> <<>>] }

Stmts == SimpleStmts \cup CompoundStmts

IsCompound(node) == "body" \in DOMAIN node

\* The statements up to the last one are laid out as Python requires: a
\* compound statement is followed by its indented body, a simple one is not.
WellIndented(lines) ==
    /\ Len(lines) > 0 => lines[1].depth = 0
    /\ \A i \in 1..(Len(lines) - 1) :
          IF IsCompound(lines[i].stmt)
          THEN lines[i + 1].depth = lines[i].depth + 1
          ELSE lines[i + 1].depth <= lines[i].depth

\* A script whose last statement opens a block that never comes does not
\* parse ("expected an indented block").
Parseable(lines) ==
    /\ WellIndented(lines)
    /\ Len(lines) > 0 => ~IsCompound(lines[Len(lines)].stmt)

\* The last line of the block that line lo opens.
BlockEnd(lines, lo, hi) ==
    CHOOSE j \in lo..hi :
       /\ \A k \in (lo + 1)..j : lines[k].depth > lines[lo].depth
       /\ j < hi => lines[j + 1].depth <= lines[lo].depth

RECURSIVE Build(_, _, _)
Build(lines, lo, hi) ==
    IF lo > hi THEN <<>>
    ELSE LET end  == BlockEnd(lines, lo, hi)
             stmt == lines[lo].stmt
             node == IF IsCompound(stmt)
                     THEN [stmt EXCEPT !.body = Build(lines, lo + 1, end)]
                     ELSE stmt
         IN  <<node>> \o Build(lines, end + 1, hi)

\* ast.parse of a parseable script.
Parse(lines) == [type |-> "Module", body |-> Build(lines, 1, Len(lines))]

\* The depths at which a statement may come after the given lines: at depth
\* 0 first, one deeper after a compound statement, no deeper after a simple
\* one, and never deeper than MaxDepth.
DepthsAfter(lines) ==
    IF lines = <<>> THEN {0}
    ELSE LET last == lines[Len(lines)]
         IN  IF IsCompound(last.stmt)
             THEN {last.depth + 1} \cap 0..MaxDepth
             ELSE 0..last.depth

\* The well-indented layouts of the first n of the given statements.
RECURSIVE Layouts(_, _)
Layouts(stmts, n) ==
    IF n = 0 THEN { <<>> }
    ELSE UNION { { Append(lines, [stmt |-> stmts[n], depth |-> d]) :
                     d \in DepthsAfter(lines) } :
                 lines \in Layouts(stmts, n - 1) }

-----------------------------------------------------------------------------
(***************************************************************************)
(* linting.py: is_code_in_functions_or_main                                *)
(***************************************************************************)
IsImport(node) == node.type \in {"Import", "ImportFrom"}

IsDefinition(node) == node.type \in {"FunctionDef", "AsyncFunctionDef", "ClassDef"}

\* The test of lines 197-203.
IsMainBlock(node) ==
    /\ node.type = "If"
    /\ node.test.type = "Compare"
    /\ node.test.ops[1] = "Eq"
    /\ node.test.left.type = "Name"
    /\ node.test.left.id = "__name__"
    /\ node.test.comparators[1].type = "Constant"
    /\ node.test.comparators[1].value = "__main__"

\* The loop over tree.body from statement i on: "True" or "False" as
\* properly_encapsulated ends, or the exception that reading node.value of a
\* statement without that attribute raises.
RECURSIVE EncapsulationLoop(_, _)
EncapsulationLoop(body, i) ==
    IF i > Len(body) THEN "True"
    ELSE LET node == body[i]
         IN  IF IsImport(node) THEN EncapsulationLoop(body, i + 1)
             ELSE IF IsDefinition(node) \/ IsMainBlock(node)
                  THEN EncapsulationLoop(body, i + 1)
             ELSE IF "value" \notin DOMAIN node THEN "AttributeError"
             ELSE IF node.value.type = "Constant"
                  THEN EncapsulationLoop(body, i + 1)
             ELSE "False"

\* The call: what it returns and what it prints.  Both except clauses print
\* and fall off the end of the function, which returns None.
is_code_in_functions_or_main(lines) ==
    IF ~Parseable(lines)
    THEN [outcome |-> "return", value |-> "None",
          printed |-> <<"SyntaxError while parsing file">>]
    ELSE LET r == EncapsulationLoop(Parse(lines).body, 1)
         IN  IF r = "AttributeError"
             THEN [outcome |-> "return", value |-> "None",
                   printed |-> <<"An unexpected error occurred">>]
             ELSE [outcome |-> "return", value |-> r, printed |-> <<>>]

(***************************************************************************)
(* linting.py: functions_without_docstrings                                *)
(***************************************************************************)
\* ast.iter_child_nodes, restricted to the statements a node holds.
ChildNodes(node) == IF IsCompound(node) THEN node.body ELSE <<>>

\* ast.walk: breadth first from the queue todo.
RECURSIVE Walk(_)
Walk(todo) ==
    IF todo = <<>> THEN <<>>
    ELSE <<Head(todo)>> \o Walk(Tail(todo) \o ChildNodes(Head(todo)))

\* The test of lines 238-242; ast.Str is the string case of ast.Constant.
HasDocstring(node) ==
    /\ node.body # <<>>
    /\ node.body[1].type = "Expr"
    /\ node.body[1].value.type = "Constant"

RECURSIVE NoDocstrings(_)
NoDocstrings(nodes) ==
    IF nodes = <<>> THEN <<>>
    ELSE LET node == Head(nodes)
         IN  (IF node.type = "FunctionDef" /\ ~HasDocstring(node)
              THEN <<node.name>> ELSE <<>>)
             \o NoDocstrings(Tail(nodes))

\* Only IOError is caught: the SyntaxError of ast.parse propagates.
functions_without_docstrings(lines) ==
    IF ~Parseable(lines)
    THEN [outcome |-> "raise", value |-> "SyntaxError", printed |-> <<>>]
    ELSE [outcome |-> "return", value |-> NoDocstrings(Walk(<<Parse(lines)>>)),
          printed |-> <<>>]

(***************************************************************************)
(* linting.py: SubprocessVisitor and code_contains_subprocess              *)
(***************************************************************************)
\* visit_Import looking at the first alias only.
visit_Import_first_alias(node) == node.names[1].name = "subprocess"

\* visit_Import: whether the node sets self.found.
visit_Import(node) ==
    \E k \in 1..Len(node.names) : node.names[k].name = "subprocess"

\* visit_ImportFrom: whether the node sets self.found.
visit_ImportFrom(node) == node.module = "subprocess"

\* NodeVisitor.visit on a node with self.found as given: the value of
\* self.found after the node and, through generic_visit, all its
\* descendants have been visited.
RECURSIVE visit(_, _)
RECURSIVE generic_visit(_, _)
visit(node, found) ==
    IF node.type = "Import"
    THEN generic_visit(node, found \/ visit_Import(node))
    ELSE IF node.type = "ImportFrom"
    THEN generic_visit(node, found \/ visit_ImportFrom(node))
    ELSE generic_visit(node, found)

RECURSIVE visit_all(_, _)
visit_all(nodes, found) ==
    IF nodes = <<>> THEN found
    ELSE visit_all(Tail(nodes), visit(Head(nodes), found))

generic_visit(node, found) == visit_all(ChildNodes(node), found)

\* Only IOError is caught: the SyntaxError of ast.parse propagates.
code_contains_subprocess(lines) ==
    IF ~Parseable(lines)
    THEN [outcome |-> "raise", value |-> "SyntaxError", printed |-> <<>>]
    ELSE [outcome |-> "return",
          value |-> IF visit(Parse(lines), FALSE) THEN "True" ELSE "False",
          printed |-> <<>>]

-----------------------------------------------------------------------------
(***************************************************************************)
(* SpecAst: a script is drawn and one of the three checks is applied to    *)
(* it.  The checks keep no state, so a behaviour applies one of them once. *)
(***************************************************************************)
InitAst ==
    /\ \E n \in 0..MaxStmts : \E stmts \in [1..n -> Stmts] :
          script \in Layouts(stmts, n)
    /\ call = NoCall
    /\ rawOutput = Idle /\ truncation = Idle
    /\ errors = Idle /\ original_path = Idle /\ remapped = Idle
    /\ notebook = Idle /\ nbCall = Idle
    /\ files = Idle /\ verbose_flag = Idle /\ pos = Idle
    /\ status = Idle /\ stdout = Idle /\ dispatched = Idle /\ analyses = Idle
    /\ findings = Idle /\ presented = Idle
    /\ worktree = Idle /\ commits = Idle /\ date_filter = Idle
    /\ request = Idle /\ stack = Idle /\ checkout = Idle /\ events = Idle
    /\ frame = Idle

CheckEncapsulation ==
    /\ call = NoCall
    /\ call' = [fn |-> "is_code_in_functions_or_main",
                res |-> is_code_in_functions_or_main(script)]
    /\ UNCHANGED <<script, ruffVars, remapVars, nbVars, runVars,
                   printVars, discoverVars, evalVars, stepVars>>

FindUndocumentedFunctions ==
    /\ call = NoCall
    /\ call' = [fn |-> "functions_without_docstrings",
                res |-> functions_without_docstrings(script)]
    /\ UNCHANGED <<script, ruffVars, remapVars, nbVars, runVars,
                   printVars, discoverVars, evalVars, stepVars>>

UsesRestrictedImport ==
    /\ call = NoCall
    /\ call' = [fn |-> "code_contains_subprocess",
                res |-> code_contains_subprocess(script)]
    /\ UNCHANGED <<script, ruffVars, remapVars, nbVars, runVars,
                   printVars, discoverVars, evalVars, stepVars>>

NextAst == CheckEncapsulation \/ FindUndocumentedFunctions \/ UsesRestrictedImport

SpecAst == InitAst /\ [][NextAst]_vars

-----------------------------------------------------------------------------
-----------------------------------------------------------------------------
(***************************************************************************)
(* evaluate_repo.py: find_first_match_index and process_ruff_results       *)
(***************************************************************************)
Digits == {"0", "1", "2", "3", "4", "5", "6", "7", "8", "9"}

StartsWith(s, prefix) ==
    /\ Len(s) >= Len(prefix)
    /\ SubSeq(s, 1, Len(prefix)) = prefix

\* str.split("\n"): the pieces between the newlines, of which there is
\* always at least one.
RECURSIVE Split(_)
Split(text) ==
    IF \A k \in 1..Len(text) : text[k] # "\n" THEN <<text>>
    ELSE LET k == CHOOSE j \in 1..Len(text) :
                     /\ text[j] = "\n"
                     /\ \A h \in 1..(j - 1) : text[h] # "\n"
         IN  <<SubSeq(text, 1, k - 1)>> \o Split(SubSeq(text, k + 1, Len(text)))

\* "\n".join(lines)
RECURSIVE Join(_)
Join(lines) ==
    IF lines = <<>> THEN <<>>
    ELSE IF Len(lines) = 1 THEN lines[1]
    ELSE lines[1] \o <<"\n">> \o Join(Tail(lines))

\* re.match of  Found \d+ errors  at the start of item: "Found ", one or
\* more digits, " errors".
RuffSummaryMatch(item) ==
    /\ StartsWith(item, <<"F", "o", "u", "n", "d", " ">>)
    /\ \E n \in 1..Len(item) :
          /\ 6 + n <= Len(item)
          /\ \A k \in 7..(6 + n) : item[k] \in Digits
          /\ StartsWith(SubSeq(item, 7 + n, Len(item)),
                        <<" ", "e", "r", "r", "o", "r", "s">>)

\* find_first_match_index from position index (counted from 0) on.
RECURSIVE FirstMatchFrom(_, _)
FirstMatchFrom(lst, index) ==
    IF index >= Len(lst) THEN -1
    ELSE IF RuffSummaryMatch(lst[index + 1]) THEN index
    ELSE FirstMatchFrom(lst, index + 1)

find_first_match_index(lst) == FirstMatchFrom(lst, 0)

\* process_ruff_results returning every line when no summary line is found.
process_ruff_results_keep_all(text) ==
    LET results == Split(text)
        fmi     == find_first_match_index(results)
    IN  IF fmi = -1 THEN results ELSE SubSeq(results, 1, fmi)

process_ruff_results(text) ==
    LET results == Split(text)
        fmi     == find_first_match_index(results)
    IN  IF fmi = -1 THEN <<>> ELSE SubSeq(results, 1, fmi)

(***************************************************************************)
(* SpecRuff: a tool output is drawn, truncated, and the truncated lines,   *)
(* joined again, are truncated once more.                                  *)
(***************************************************************************)
\* Lines a tool may write: findings, summary lines of several forms, and
\* lines that only resemble a summary.
OutputLines ==
    { <<"f", ":", "3", ":", "1", ":", " ", "X">>,
      <<"g", ":", "1", ":", "2", ":", " ", "Y">>,
      <<>>,
      <<"F", "o", "u", "n", "d", " ", "1", " ", "e", "r", "r", "o", "r", ".">>,
      <<"F", "o", "u", "n", "d", " ", "2", " ", "e", "r", "r", "o", "r", "s", ".">>,
      <<"F", "o", "u", "n", "d", " ", "1", "2", " ", "e", "r", "r", "o", "r", "s">>,
      <<" ", "F", "o", "u", "n", "d", " ", "2", " ", "e", "r", "r", "o", "r", "s">>,
      <<"F", "o", "u", "n", "d", " ", "e", "r", "r", "o", "r", "s">> }

ToolOutputsUpTo(max) ==
    UNION { { Join(ls) \o end : ls \in [1..n -> OutputLines], end \in {<<>>, <<"\n">>} } :
            n \in 0..max }

InitRuff ==
    /\ rawOutput \in ToolOutputsUpTo(MaxLines)
    /\ truncation = [step |-> 0]
    /\ script = Idle /\ call = Idle
    /\ errors = Idle /\ original_path = Idle /\ remapped = Idle
    /\ notebook = Idle /\ nbCall = Idle
    /\ files = Idle /\ verbose_flag = Idle /\ pos = Idle
    /\ status = Idle /\ stdout = Idle /\ dispatched = Idle /\ analyses = Idle
    /\ findings = Idle /\ presented = Idle
    /\ worktree = Idle /\ commits = Idle /\ date_filter = Idle
    /\ request = Idle /\ stack = Idle /\ checkout = Idle /\ events = Idle
    /\ frame = Idle

ProcessRuffResults ==
    /\ truncation.step = 0
    /\ truncation' = [step |-> 1, first |-> process_ruff_results(rawOutput)]
    /\ UNCHANGED <<rawOutput, astVars, remapVars, nbVars, runVars,
                   printVars, discoverVars, evalVars, stepVars>>

ProcessRuffResultsAgain ==
    /\ truncation.step = 1
    /\ truncation' = [step |-> 2, first |-> truncation.first,
                      second |-> process_ruff_results(Join(truncation.first))]
    /\ UNCHANGED <<rawOutput, astVars, remapVars, nbVars, runVars,
                   printVars, discoverVars, evalVars, stepVars>>

NextRuff == ProcessRuffResults \/ ProcessRuffResultsAgain

SpecRuff == InitRuff /\ [][NextRuff]_vars

-----------------------------------------------------------------------------
(***************************************************************************)
(* linting.py: convert_temp_names_to_originals                             *)
(***************************************************************************)
\* str.find(ch): the position, counted from 0, of the first ch, or -1.
Find(s, ch) ==
    IF \A k \in 1..Len(s) : s[k] # ch THEN -1
    ELSE (CHOOSE k \in 1..Len(s) :
             /\ s[k] = ch
             /\ \A h \in 1..(k - 1) : s[h] # ch) - 1

\* s[k:], where a negative k counts from the end.
SliceFrom(s, k) ==
    IF k >= 0 THEN SubSeq(s, k + 1, Len(s))
    ELSE SubSeq(s, IF Len(s) + k + 1 < 1 THEN 1 ELSE Len(s) + k + 1, Len(s))

convert_temp_names_to_originals(errors_and_warnings, original) ==
    [i \in 1..Len(errors_and_warnings) |->
        original \o SliceFrom(errors_and_warnings[i],
                              Find(errors_and_warnings[i], ":"))]

(***************************************************************************)
(* SpecRemap: a list of findings reported against a derived file and the   *)
(* path of the original are drawn, and the findings are converted.         *)
(***************************************************************************)
\* Paths of a derived (temporary) file, one of them with a drive letter.
DerivedPaths ==
    { <<"/", "t", ".", "p", "y">>,
      <<"t", "m", "p">>,
      <<"C", ":", "/", "t", ".", "p", "y">> }

OriginalPaths == { <<"n", ".", "i", "p", "y", "n", "b">>, <<"d", "/", "n">> }

LineNumbers == { <<"3">>, <<"1", "2">> }

Messages == { <<"E">>, <<"a", ":", " ", "b">> }

\* The line  <path>:<line>:<col>: <msg>
FindingText(path, line, col, msg) ==
    path \o <<":">> \o line \o <<":">> \o col \o <<":", " ">> \o msg

Findings ==
    { [derived |-> d, line |-> l, col |-> c, msg |-> m,
       text |-> FindingText(d, l, c, m)] :
         d \in DerivedPaths, l \in LineNumbers, c \in LineNumbers, m \in Messages }

InitRemap ==
    /\ \E n \in 0..MaxErrors : errors \in [1..n -> Findings]
    /\ original_path \in OriginalPaths
    /\ remapped = [done |-> FALSE]
    /\ script = Idle /\ call = Idle
    /\ rawOutput = Idle /\ truncation = Idle
    /\ notebook = Idle /\ nbCall = Idle
    /\ files = Idle /\ verbose_flag = Idle /\ pos = Idle
    /\ status = Idle /\ stdout = Idle /\ dispatched = Idle /\ analyses = Idle
    /\ findings = Idle /\ presented = Idle
    /\ worktree = Idle /\ commits = Idle /\ date_filter = Idle
    /\ request = Idle /\ stack = Idle /\ checkout = Idle /\ events = Idle
    /\ frame = Idle

ConvertTempNamesToOriginals ==
    /\ ~remapped.done
    /\ remapped' =
          [done |-> TRUE,
           lines |-> convert_temp_names_to_originals(
                        [i \in 1..Len(errors) |-> errors[i].text], original_path)]
    /\ UNCHANGED <<errors, original_path, astVars, ruffVars, nbVars, runVars,
                   printVars, discoverVars, evalVars, stepVars>>

NextRemap == ConvertTempNamesToOriginals

SpecRemap == InitRemap /\ [][NextRemap]_vars

-----------------------------------------------------------------------------
(***************************************************************************)
(* notebooks.py: count_functions and process_notebook.  A notebook file is *)
(* either not JSON or a JSON object, a record that may lack "cells"; a     *)
(* cell is a record that may lack "cell_type" or "source".                 *)
(***************************************************************************)
Whitespace == {" ", "\n", "\t"}

RECURSIVE LStrip(_)
LStrip(s) == IF s # <<>> /\ Head(s) \in Whitespace THEN LStrip(Tail(s)) ELSE s

RECURSIVE RStrip(_)
RStrip(s) ==
    IF s # <<>> /\ s[Len(s)] \in Whitespace
    THEN RStrip(SubSeq(s, 1, Len(s) - 1)) ELSE s

\* str.strip()
Strip(s) == RStrip(LStrip(s))

IsDefLine(line) == StartsWith(Strip(line), <<"d", "e", "f", " ">>)

IsNonBlank(line) == Strip(line) # <<>>

\* len([1 for line in source if line.strip()])
NonBlankLines(source) ==
    Cardinality({ k \in 1..Len(source) : IsNonBlank(source[k]) })

count_functions(cell) ==
    Cardinality({ k \in 1..Len(cell.source) : IsDefLine(cell.source[k]) })

Max(a, b) == IF a >= b THEN a ELSE b

\* The test of line 34 taking every cell for a code cell.
IsCodeCell_any(cell) == TRUE

\* The test of line 34.
IsCodeCell(cell) == cell.cell_type = "code"

\* The loop over the cells from cell i on; acc holds num_lines,
\* num_functions and max_lines_in_cell.  A missing key ends it in KeyError.
RECURSIVE CellsLoop(_, _, _)
CellsLoop(cells, i, acc) ==
    IF i > Len(cells) THEN [raised |-> "None", acc |-> acc]
    ELSE LET cell == cells[i]
         IN  IF "cell_type" \notin DOMAIN cell THEN [raised |-> "KeyError"]
             ELSE IF ~IsCodeCell(cell) THEN CellsLoop(cells, i + 1, acc)
             ELSE IF "source" \notin DOMAIN cell THEN [raised |-> "KeyError"]
             ELSE LET lines_in_cell == NonBlankLines(cell.source)
                  IN  CellsLoop(cells, i + 1,
                         [num_lines |-> acc.num_lines + lines_in_cell,
                          max_lines_in_cell |->
                              Max(acc.max_lines_in_cell, lines_in_cell),
                          num_functions |->
                              acc.num_functions + count_functions(cell)])

process_notebook(doc) ==
    IF ~doc.json THEN [outcome |-> "raise", value |-> "JSONDecodeError"]
    ELSE IF "cells" \notin DOMAIN doc THEN [outcome |-> "raise", value |-> "KeyError"]
    ELSE LET r == CellsLoop(doc.cells, 1,
                     [num_lines |-> 0, num_functions |-> 0, max_lines_in_cell |-> 0])
         IN  IF r.raised # "None" THEN [outcome |-> "raise", value |-> r.raised]
             ELSE [outcome |-> "return",
                   value |-> [num_cells |-> Len(doc.cells),
                              num_lines |-> r.acc.num_lines,
                              num_functions |-> r.acc.num_functions,
                              max_lines_in_cell |-> r.acc.max_lines_in_cell]]

(***************************************************************************)
(* constants.py                                                            *)
(***************************************************************************)
MAX_CELLS_PER_NOTEBOOK == 10
MAX_LINES_PER_CELL == 15
MAX_FUNCTIONS_PER_NOTEBOOK == 0

(***************************************************************************)
(* evaluate_repo.py: print_results and analyze_notebook.  A printed line   *)
(* is a record whose field k names the message and whose other fields are  *)
(* the values formatted into it.                                           *)
(***************************************************************************)
\* The number of results print_results shows when not verbose.
MaxShown == 5

\* results[:n] keeping every result.
Take_all(seq, n) == seq

\* results[:n]
Take(seq, n) == SubSeq(seq, 1, IF n < Len(seq) THEN n ELSE Len(seq))

print_results(tool_name, results, verbose) ==
    IF results = <<>> THEN <<>>
    ELSE LET header == [k |-> "found", tool |-> tool_name, n |-> Len(results)]
             shown  == IF verbose THEN results ELSE Take(results, MaxShown)
         IN  <<header>>
             \o [i \in 1..Len(shown) |-> [k |-> "result", text |-> shown[i]]]
             \o (IF ~verbose /\ Len(results) > MaxShown
                 THEN <<[k |-> "more", n |-> Len(results) - MaxShown]>>
                 ELSE <<>>)

\* The threshold tests with >= for >.
Exceeds_or_equals(value, limit) == value >= limit

\* The threshold tests of lines 87-89 and 95-100.
Exceeds(value, limit) == value > limit

\* run_ruff_and_capture_output is imported from cocoa.linting, which does
\* not define it: by the specification it returns the text the tool wrote
\* and never raises.  These are the texts it may return for a file.
RuffOutputs ==
    { <<>>,
      <<"n", ":", "1", ":", "1", ":", " ", "E", "\n",
        "F", "o", "u", "n", "d", " ", "2", " ", "e", "r", "r", "o", "r", "s", ".", "\n">> }

run_ruff_and_capture_output(file) == RuffOutputs

\* Lines 85-102 of analyze_notebook: what it prints once it holds the
\* metrics m and the truncated tool results.
notebook_report(file_path, m, ruff_results, verbose) ==
    IF \/ Len(ruff_results) > 0
       \/ Exceeds(m.num_cells, MAX_CELLS_PER_NOTEBOOK)
       \/ Exceeds(m.max_lines_in_cell, MAX_LINES_PER_CELL)
       \/ Exceeds(m.num_functions, MAX_FUNCTIONS_PER_NOTEBOOK)
    THEN <<[k |-> "Analyzing", path |-> file_path]>>
         \o print_results("ruff", ruff_results, verbose)
         \o (IF Exceeds(m.num_cells, MAX_CELLS_PER_NOTEBOOK)
             THEN <<[k |-> "Max number of cells exceeded", n |-> m.num_cells]>>
             ELSE <<>>)
         \o (IF Exceeds(m.max_lines_in_cell, MAX_LINES_PER_CELL)
             THEN <<[k |-> "Max number of lines per cell exceeded",
                     n |-> m.max_lines_in_cell]>>
             ELSE <<>>)
         \o (IF Exceeds(m.num_functions, MAX_FUNCTIONS_PER_NOTEBOOK)
             THEN <<[k |-> "Function definitions detected", n |-> m.num_functions]>>
             ELSE <<>>)
         \o <<[k |-> "separator"]>>
    ELSE <<>>

\* analyze_notebook on a notebook file for which the tool wrote
\* ruff_output: whether it returns or raises, and what it prints.
analyze_notebook(file_path, doc, ruff_output, verbose) ==
    LET p == process_notebook(doc)
    IN  IF p.outcome = "raise"
        THEN [outcome |-> "raise", value |-> p.value, printed |-> <<>>]
        ELSE [outcome |-> "return", value |-> "None",
              printed |-> notebook_report(file_path, p.value,
                                          process_ruff_results(ruff_output),
                                          verbose)]

(***************************************************************************)
(* SpecNotebook: a notebook is drawn and process_notebook or               *)
(* analyze_notebook is applied to it, once in a behaviour.                 *)
(***************************************************************************)
\* Source lines of a cell.
CodeLine  == <<"x", " ", "=", " ", "1", "\n">>
BlankLine == <<" ", "\n">>
DefLine   == <<"d", "e", "f", " ", "f", "(", ")", ":", "\n">>
IndentedDefLine == <<" ", " ", "d", "e", "f", " ", "g", "(", ")", ":">>
DefWordLine == <<"d", "e", "f", "\n">>

Repeat(line, n) == [i \in 1..n |-> line]

\* The cells that fill a notebook: text, one line of code, and code
\* between blank lines.
FillerCells ==
    { [cell_type |-> "markdown", source |-> <<CodeLine, DefLine>>],
      [cell_type |-> "code", source |-> <<CodeLine>>],
      [cell_type |-> "code", source |-> <<BlankLine, CodeLine, <<>>, DefWordLine>>] }

\* The sizes drawn below a bound: the smallest ones and the ones next to
\* the bound, which lies past the limit the size is compared with.
Sizes(bound) == { n \in 0..bound : n <= 2 \/ n >= bound - 3 }

\* One cell of up to maxLines repeated lines, and cells that lack a key.
SpecialCells(maxLines) ==
    { [cell_type |-> t, source |-> Repeat(l, n) \o tail] :
        t \in {"code", "raw"},
        l \in {CodeLine, BlankLine, DefLine},
        n \in Sizes(maxLines),
        tail \in {<<>>, <<IndentedDefLine>>, <<DefWordLine, CodeLine>>} }
    \cup { [source |-> <<CodeLine>>],
           [cell_type |-> "code"],
           [cell_type |-> "markdown"] }

\* Notebook files: not JSON, JSON without "cells", and notebooks of up to
\* maxCells cells, all the filler but the first or the last.
NotebookFiles(maxCells, maxLines) ==
    { [json |-> FALSE], [json |-> TRUE, nbformat |-> "4"] }
    \cup { [json |-> TRUE, cells |-> Repeat(filler, n)] :
             filler \in FillerCells, n \in Sizes(maxCells) }
    \cup UNION { { [json |-> TRUE,
                    cells |-> [i \in 1..n |-> IF i = p THEN special ELSE filler]] :
                     filler \in FillerCells, special \in SpecialCells(maxLines),
                     p \in {1, n} } :
                  n \in Sizes(maxCells) \ {0} }

NotebookPath == "n.ipynb"

InitNotebook ==
    /\ notebook \in NotebookFiles(MaxCells, MaxCellLines)
    /\ nbCall = NoCall
    /\ script = Idle /\ call = Idle
    /\ rawOutput = Idle /\ truncation = Idle
    /\ errors = Idle /\ original_path = Idle /\ remapped = Idle
    /\ files = Idle /\ verbose_flag = Idle /\ pos = Idle
    /\ status = Idle /\ stdout = Idle /\ dispatched = Idle /\ analyses = Idle
    /\ findings = Idle /\ presented = Idle
    /\ worktree = Idle /\ commits = Idle /\ date_filter = Idle
    /\ request = Idle /\ stack = Idle /\ checkout = Idle /\ events = Idle
    /\ frame = Idle

ProcessNotebook ==
    /\ nbCall = NoCall
    /\ nbCall' = [fn |-> "process_notebook", res |-> process_notebook(notebook)]
    /\ UNCHANGED <<notebook, astVars, ruffVars, remapVars, runVars,
                   printVars, discoverVars, evalVars, stepVars>>

AnalyzeNotebook ==
    /\ nbCall = NoCall
    /\ \E ruff_output \in run_ruff_and_capture_output(NotebookPath), verbose \in BOOLEAN :
          nbCall' = [fn |-> "analyze_notebook",
                     res |-> analyze_notebook(NotebookPath, notebook,
                                              ruff_output, verbose)]
    /\ UNCHANGED <<notebook, astVars, ruffVars, remapVars, runVars,
                   printVars, discoverVars, evalVars, stepVars>>

NextNotebook == ProcessNotebook \/ AnalyzeNotebook

SpecNotebook == InitNotebook /\ [][NextNotebook]_vars

-----------------------------------------------------------------------------
(***************************************************************************)
(* evaluate_repo.py: analyze_python_file and the loop of walk_and_process  *)
(***************************************************************************)
\* "not code_in_functions" taking only False for false.
Not_only_False(value) == value = "False"

\* "not code_in_functions" of lines 115 and 125: None is false as False is.
Not(value) == value \in {"False", "None"}

\* Lines 112-127 of analyze_python_file: what it prints once it holds
\* the values of the two checks and the truncated tool results.
python_file_report(file_path, contains_subprocess, code_in_functions, ruff_results, verbose) ==
    IF \/ contains_subprocess = "True"
       \/ Len(ruff_results) > 0
       \/ Not(code_in_functions)
    THEN <<[k |-> "Analyzing", path |-> file_path]>>
         \o print_results("ruff", ruff_results, verbose)
         \o (IF contains_subprocess = "True"
             THEN <<[k |-> "Subprocess usage detected."]>>
             ELSE <<>>)
         \o (IF Not(code_in_functions)
             THEN <<[k |-> "Code outside functions or main block detected."]>>
             ELSE <<>>)
         \o <<[k |-> "separator"]>>
    ELSE <<>>

\* The lines a check printed, as lines of the output.
Printed(res) == [i \in 1..Len(res.printed) |-> [k |-> res.printed[i]]]

\* analyze_python_file on a script for which the tool wrote ruff_output:
\* whether it returns or raises, and what it and its callees print.
analyze_python_file(file_path, lines, ruff_output, verbose) ==
    LET contains_subprocess == code_contains_subprocess(lines)
    IN  IF contains_subprocess.outcome = "raise"
        THEN [outcome |-> "raise", value |-> contains_subprocess.value,
              printed |-> <<>>]
        ELSE LET code_in_functions == is_code_in_functions_or_main(lines)
             IN  [outcome |-> "return", value |-> "None",
                  printed |->
                     Printed(code_in_functions)
                     \o python_file_report(file_path, contains_subprocess.value,
                                           code_in_functions.value,
                                           process_ruff_results(ruff_output),
                                           verbose)]

\* str.endswith
EndsWith(s, suffix) ==
    /\ Len(s) >= Len(suffix)
    /\ SubSeq(s, Len(s) - Len(suffix) + 1, Len(s)) = suffix

DotPy == <<".", "p", "y">>
DotIpynb == <<".", "i", "p", "y", "n", "b">>

(***************************************************************************)
(* SpecRun: walk_and_process over a list of files to process.  A file is   *)
(* its path, whether it still exists, and its content: the statements of   *)
(* a script or the document of a notebook.                                 *)
(***************************************************************************)
ScriptFile(name, lines) ==
    [path |-> <<name>> \o DotPy, exists |-> TRUE, lines |-> lines]

NotebookFile(name, doc) ==
    [path |-> <<name>> \o DotIpynb, exists |-> TRUE, doc |-> doc]

Line(stmt, depth) == [stmt |-> stmt, depth |-> depth]

FunctionF == [type |-> "FunctionDef", name |-> "f", body |-> <<>>]
ForLoop == [type |-> "For", body |-> <<>>]
Docstring == [type |-> "Expr", value |-> Constant("str", "doc")]
CallStmt == [type |-> "Expr", value |-> [type |-> "Call"]]
ImportSubprocess == [type |-> "Import", names |-> <<Alias("subprocess", "None")>>]

RunFiles ==
    { \* a script with nothing to report
      ScriptFile("a", <<Line(FunctionF, 0), Line(Docstring, 1)>>),
      \* a script that imports subprocess and calls at the top level
      ScriptFile("b", <<Line(ImportSubprocess, 0), Line(CallStmt, 0)>>),
      \* a script that calls at the top level
      ScriptFile("e", <<Line(CallStmt, 0)>>),
      \* a script with a loop at the top level
      ScriptFile("g", <<Line(ForLoop, 0), Line(Docstring, 1)>>),
      \* a script that does not parse
      ScriptFile("c", <<Line(FunctionF, 0)>>),
      \* a script removed since it was listed
      [path |-> <<"d">> \o DotPy, exists |-> FALSE, lines |-> <<>>],
      \* a notebook with nothing to report
      NotebookFile("m", [json |-> TRUE,
                         cells |-> <<[cell_type |-> "code", source |-> <<CodeLine>>]>>]),
      \* a notebook with a function definition
      NotebookFile("n", [json |-> TRUE,
                         cells |-> <<[cell_type |-> "markdown", source |-> <<CodeLine>>],
                                     [cell_type |-> "code", source |-> <<DefLine, CodeLine>>]>>]),
      \* notebooks that are not JSON, lack "cells", or hold a cell without
      \* "cell_type" or a Code cell without "source"
      NotebookFile("o", [json |-> FALSE]),
      NotebookFile("p", [json |-> TRUE, nbformat |-> "4"]),
      NotebookFile("q", [json |-> TRUE, cells |-> <<[source |-> <<CodeLine>>]>>]),
      NotebookFile("r", [json |-> TRUE, cells |-> <<[cell_type |-> "code"]>>]),
      \* a file that is neither
      [path |-> <<"t", ".", "t", "x", "t">>, exists |-> TRUE] }

InitRun ==
    /\ \E n \in 0..MaxFiles : files \in [1..n -> RunFiles]
    /\ verbose_flag \in BOOLEAN
    /\ pos = 1
    /\ status = [state |-> "walking"]
    /\ stdout = <<[k |-> "Currently analyzing branch"]>>
    /\ dispatched = <<>>
    /\ analyses = <<>>
    /\ script = Idle /\ call = Idle
    /\ rawOutput = Idle /\ truncation = Idle
    /\ errors = Idle /\ original_path = Idle /\ remapped = Idle
    /\ notebook = Idle /\ nbCall = Idle
    /\ findings = Idle /\ presented = Idle
    /\ worktree = Idle /\ commits = Idle /\ date_filter = Idle
    /\ request = Idle /\ stack = Idle /\ checkout = Idle /\ events = Idle
    /\ frame = NoCall

Walking == status.state = "walking" /\ pos <= Len(files)

\* What one call made for the file at pos leaves behind: its prints, and
\* the next file or, when it raised, the end of the run, since neither
\* walk_and_process nor evaluate_repo nor main catches anything.
Dispatch(ruff_output, res) ==
    /\ stdout' = stdout \o res.printed
    /\ dispatched' = Append(dispatched, pos)
    /\ analyses' = Append(analyses, [at |-> pos, ruff_output |-> ruff_output,
                                     res |-> res])
    /\ IF res.outcome = "raise"
       THEN /\ status' = [state |-> "crashed", at |-> pos, exception |-> res.value]
            /\ pos' = pos
       ELSE /\ status' = status
            /\ pos' = pos + 1

WalkNotebook ==
    /\ Walking
    /\ files[pos].exists
    /\ EndsWith(files[pos].path, DotIpynb)
    /\ \E ruff_output \in run_ruff_and_capture_output(files[pos].path) :
          Dispatch(ruff_output, analyze_notebook(files[pos].path, files[pos].doc,
                                    ruff_output, verbose_flag))
    /\ UNCHANGED <<files, verbose_flag, astVars, ruffVars, remapVars, nbVars,
                   printVars, discoverVars, evalVars, stepVars>>

WalkPythonFile ==
    /\ Walking
    /\ files[pos].exists
    /\ ~EndsWith(files[pos].path, DotIpynb)
    /\ EndsWith(files[pos].path, DotPy)
    /\ \E ruff_output \in run_ruff_and_capture_output(files[pos].path) :
          Dispatch(ruff_output, analyze_python_file(files[pos].path, files[pos].lines,
                                       ruff_output, verbose_flag))
    /\ UNCHANGED <<files, verbose_flag, astVars, ruffVars, remapVars, nbVars,
                   printVars, discoverVars, evalVars, stepVars>>

WalkSkip ==
    /\ Walking
    /\ \/ ~files[pos].exists
       \/ /\ ~EndsWith(files[pos].path, DotIpynb)
          /\ ~EndsWith(files[pos].path, DotPy)
    /\ pos' = pos + 1
    /\ UNCHANGED <<files, verbose_flag, status, stdout, dispatched, analyses,
                   astVars, ruffVars, remapVars, nbVars,
                   printVars, discoverVars, evalVars, stepVars>>

WalkDone ==
    /\ status.state = "walking"
    /\ pos > Len(files)
    /\ status' = [state |-> "done"]
    /\ UNCHANGED <<files, verbose_flag, pos, stdout, dispatched, analyses,
                   astVars, ruffVars, remapVars, nbVars,
                   printVars, discoverVars, evalVars, stepVars>>

NextRun == WalkNotebook \/ WalkPythonFile \/ WalkSkip \/ WalkDone

SpecRun == InitRun /\ [][NextRun]_vars

-----------------------------------------------------------------------------
(***************************************************************************)
(* SpecPrint: print_results is applied to a list of results of one tool,   *)
(* once in a behaviour.                                                    *)
(***************************************************************************)
MaxResults == 7   \* results in a list to print

\* The lines of a tool result, and the tools named by the callers and the
\* docstring of print_results.
ResultLines == {"a.py:1:1: E", "a.py:2:1: W"}
ToolNames == {"ruff", "pylint"}

InitPrint ==
    /\ \E n \in 0..MaxResults : findings \in [1..n -> ResultLines]
    /\ presented = NoCall
    /\ script = Idle /\ call = Idle
    /\ rawOutput = Idle /\ truncation = Idle
    /\ errors = Idle /\ original_path = Idle /\ remapped = Idle
    /\ notebook = Idle /\ nbCall = Idle
    /\ files = Idle /\ verbose_flag = Idle /\ pos = Idle
    /\ status = Idle /\ stdout = Idle /\ dispatched = Idle /\ analyses = Idle
    /\ worktree = Idle /\ commits = Idle /\ date_filter = Idle
    /\ request = Idle /\ stack = Idle /\ checkout = Idle /\ events = Idle
    /\ frame = Idle

PrintResults ==
    /\ presented = NoCall
    /\ \E tool_name \in ToolNames, verbose \in BOOLEAN :
          presented' = [fn |-> "print_results", tool_name |-> tool_name,
                        verbose |-> verbose,
                        printed |-> print_results(tool_name, findings, verbose)]
    /\ UNCHANGED <<findings, astVars, ruffVars, remapVars, nbVars, runVars,
                   discoverVars, evalVars, stepVars>>

NextPrint == PrintResults

SpecPrint == InitPrint /\ [][NextPrint]_vars

-----------------------------------------------------------------------------
(***************************************************************************)
(* evaluate_repo.py and repo.py: how walk_and_process finds the files to   *)
(* process, by walking the tree or from the commits after a start date.    *)
(***************************************************************************)
paths_to_flag ==
    { <<"_", "_", "p", "y", "c", "a", "c", "h", "e", "_", "_">>,
      <<"D", "S", "_", "S", "t", "o", "r", "e">>,
      <<"i", "p", "y", "n", "b", "_", "c", "h", "e", "c", "k", "p", "o", "i", "n", "t", "s">> }

\* "x in s" for strings
Contains(s, x) ==
    \E i \in 1..(Len(s) - Len(x) + 1) : SubSeq(s, i, i + Len(x) - 1) = x

\* any(x in path for x in paths_to_flag)
Flagged(path) == \E x \in paths_to_flag : Contains(path, x)

\* os.path.join(root, f) and Path(repo.working_dir, entry)
JoinPath(dir, entry) == dir \o <<"/">> \o entry

RECURSIVE Keep(_, _)
Keep(paths, i) ==
    IF i > Len(paths) THEN <<>>
    ELSE (IF Flagged(paths[i]) THEN <<>> ELSE <<paths[i]>>) \o Keep(paths, i + 1)

\* The list comprehension of lines 45-50 over the files os.walk yields.
walk_unflagged(dir_path, tree) ==
    Keep([i \in 1..Len(tree) |-> JoinPath(dir_path, tree[i])], 1)

\* The loop of lines 170-173 over the files of one commit, from entry i on.
RECURSIVE AppendNew(_, _, _, _)
AppendNew(files_modified, working_dir, entries, i) ==
    IF i > Len(entries) THEN files_modified
    ELSE LET file_path == JoinPath(working_dir, entries[i])
         IN  AppendNew(IF \E k \in 1..Len(files_modified) : files_modified[k] = file_path
                       THEN files_modified
                       ELSE Append(files_modified, file_path),
                       working_dir, entries, i + 1)

\* The loop of lines 167-173 over the commits from commit c on.
RECURSIVE CommitsLoop(_, _, _, _, _)
CommitsLoop(working_dir, history, since_date, c, files_modified) ==
    IF c > Len(history) THEN files_modified
    ELSE CommitsLoop(working_dir, history, since_date, c + 1,
                     IF history[c].committed_date > since_date
                     THEN AppendNew(files_modified, working_dir, history[c].files, 1)
                     ELSE files_modified)

files_after_date(repo_path, history, start_date) ==
    CommitsLoop(repo_path, history, start_date, 1, <<>>)

(***************************************************************************)
(* SpecDiscover: walk_and_process on a repository, from the list of files  *)
(* to process on.  The repository is its working tree, as os.walk yields   *)
(* it, and its commits; every script and notebook in it is well formed.    *)
(***************************************************************************)
MaxCommits == 2   \* commits of the repository
MaxTouched == 2   \* files a commit touches
MaxDate == 1      \* latest date of a commit or of the start date

RepoDir == <<"r">>

\* The files of the repository, relative to its directory.
Entries ==
    << <<"a", ".", "p", "y">>,
       <<"n", ".", "i", "p", "y", "n", "b">>,
       <<"_", "_", "p", "y", "c", "a", "c", "h", "e", "_", "_", "/", "c", ".", "p", "y">>,
       <<".", "i", "p", "y", "n", "b", "_", "c", "h", "e", "c", "k", "p", "o", "i", "n", "t", "s", "/", "n", ".", "i", "p", "y", "n", "b">> >>

\* What the file at a path holds.
ContentOf(path, exists) ==
    IF EndsWith(path, DotIpynb)
    THEN [path |-> path, exists |-> exists,
          doc |-> [json |-> TRUE,
                   cells |-> <<[cell_type |-> "code", source |-> <<CodeLine>>]>>]]
    ELSE [path |-> path, exists |-> exists,
          lines |-> <<Line(FunctionF, 0), Line(Docstring, 1)>>]

\* The working trees: the entries that are kept, in the order of Entries.
RECURSIVE Kept(_, _)
Kept(keep, i) ==
    IF i > Len(Entries) THEN <<>>
    ELSE (IF i \in keep THEN <<Entries[i]>> ELSE <<>>) \o Kept(keep, i + 1)

\* The files a commit touches: up to max entries, in the order of Entries.
Touched(max) ==
    { Kept(keep, 1) :
        keep \in { k \in SUBSET (1..Len(Entries)) :
                     Cardinality(k) \in 1..max } }

\* os.path.exists(file_path) in the working tree.
Exists(path, tree) == \E i \in 1..Len(tree) : JoinPath(RepoDir, tree[i]) = path

\* The start dates of a run: None, or a date.
NoDate == [given |-> FALSE]
StartDates(max) == {NoDate} \cup [given : {TRUE}, date : 0..max]

\* files_to_process of lines 42-50.
files_to_process(tree, history, start_date) ==
    IF start_date.given
    THEN files_after_date(RepoDir, history, start_date.date)
    ELSE walk_unflagged(RepoDir, tree)

InitDiscover ==
    /\ \E keep \in SUBSET (1..Len(Entries)) : worktree = Kept(keep, 1)
    /\ \E n \in 0..MaxCommits :
          commits \in [1..n -> [committed_date : 0..MaxDate,
                                files : Touched(MaxTouched)]]
    /\ date_filter \in StartDates(MaxDate)
    /\ files = LET paths == files_to_process(worktree, commits, date_filter)
               IN  [i \in 1..Len(paths) |->
                       ContentOf(paths[i], Exists(paths[i], worktree))]
    /\ verbose_flag \in BOOLEAN
    /\ pos = 1
    /\ status = [state |-> "walking"]
    /\ stdout = <<[k |-> "Currently analyzing branch"]>>
    /\ dispatched = <<>>
    /\ analyses = <<>>
    /\ script = Idle /\ call = Idle
    /\ rawOutput = Idle /\ truncation = Idle
    /\ errors = Idle /\ original_path = Idle /\ remapped = Idle
    /\ notebook = Idle /\ nbCall = Idle
    /\ findings = Idle /\ presented = Idle
    /\ request = Idle /\ stack = Idle /\ checkout = Idle /\ events = Idle
    /\ frame = NoCall

SpecDiscover == InitDiscover /\ [][NextRun]_vars

-----------------------------------------------------------------------------
(***************************************************************************)
(* SpecSteps: walk_and_process over a list of files, one statement of      *)
(* analyze_python_file or analyze_notebook at a time.  The frame holds     *)
(* the analyzer under way, the statement it is at and its locals.          *)
(***************************************************************************)
\* print adding the lines at the front of the output.
Emit_front(out, lines) == lines \o out

\* print: the lines are added at the end of the output.
Emit(out, lines) == out \o lines

At(fn, pc) == Walking /\ frame # NoCall /\ frame.fn = fn /\ frame.pc = pc

\* The frame with the locals assigned by a statement.
WithLocals(locals) == locals @@ frame

\* An exception of a callee that no caller catches ends the run.
Uncaught(exception) ==
    /\ status' = [state |-> "crashed", at |-> pos, exception |-> exception]
    /\ UNCHANGED <<pos, stdout, frame>>

\* Lines 53-58: the call of the analyzer for the file at pos.
BeginAnalysis ==
    /\ Walking
    /\ frame = NoCall
    /\ files[pos].exists
    /\ EndsWith(files[pos].path, DotIpynb) \/ EndsWith(files[pos].path, DotPy)
    /\ frame' = IF EndsWith(files[pos].path, DotIpynb)
                THEN [fn |-> "analyze_notebook", pc |-> "process_notebook"]
                ELSE [fn |-> "analyze_python_file", pc |-> "code_contains_subprocess"]
    /\ dispatched' = Append(dispatched, pos)
    /\ UNCHANGED <<files, verbose_flag, pos, status, stdout, analyses,
                   astVars, ruffVars, remapVars, nbVars,
                   printVars, discoverVars, evalVars>>

\* Line 107.
StepContainsSubprocess ==
    /\ At("analyze_python_file", "code_contains_subprocess")
    /\ LET r == code_contains_subprocess(files[pos].lines)
       IN  IF r.outcome = "raise"
           THEN Uncaught(r.value)
           ELSE /\ frame' = WithLocals([pc |-> "is_code_in_functions_or_main",
                                    contains_subprocess |-> r.value])
                /\ stdout' = Emit(stdout, Printed(r))
                /\ UNCHANGED <<pos, status>>
    /\ UNCHANGED <<files, verbose_flag, dispatched, analyses,
                   astVars, ruffVars, remapVars, nbVars,
                   printVars, discoverVars, evalVars>>

\* Line 108.
StepCodeInFunctions ==
    /\ At("analyze_python_file", "is_code_in_functions_or_main")
    /\ LET r == is_code_in_functions_or_main(files[pos].lines)
       IN  /\ frame' = WithLocals([pc |-> "run_ruff_and_capture_output",
                               code_in_functions |-> r.value])
           /\ stdout' = Emit(stdout, Printed(r))
    /\ UNCHANGED <<files, verbose_flag, pos, status, dispatched, analyses,
                   astVars, ruffVars, remapVars, nbVars,
                   printVars, discoverVars, evalVars>>

\* Line 80.
StepProcessNotebook ==
    /\ At("analyze_notebook", "process_notebook")
    /\ LET r == process_notebook(files[pos].doc)
       IN  IF r.outcome = "raise"
           THEN Uncaught(r.value)
           ELSE /\ frame' = WithLocals([pc |-> "run_ruff_and_capture_output",
                                    metrics |-> r.value])
                /\ UNCHANGED <<pos, status, stdout>>
    /\ UNCHANGED <<files, verbose_flag, dispatched, analyses,
                   astVars, ruffVars, remapVars, nbVars,
                   printVars, discoverVars, evalVars>>

\* Lines 82 and 109.
StepRunRuff ==
    /\ \E fn \in {"analyze_notebook", "analyze_python_file"} :
          At(fn, "run_ruff_and_capture_output")
    /\ \E ruff_output \in run_ruff_and_capture_output(files[pos].path) :
          frame' = WithLocals([pc |-> "process_ruff_results",
                           ruff_results |-> ruff_output])
    /\ UNCHANGED <<files, verbose_flag, pos, status, stdout, dispatched, analyses,
                   astVars, ruffVars, remapVars, nbVars,
                   printVars, discoverVars, evalVars>>

\* Lines 83 and 110.
StepProcessRuffResults ==
    /\ \E fn \in {"analyze_notebook", "analyze_python_file"} :
          At(fn, "process_ruff_results")
    /\ frame' = WithLocals([pc |-> "report",
                        ruff_results |-> process_ruff_results(frame.ruff_results)])
    /\ UNCHANGED <<files, verbose_flag, pos, status, stdout, dispatched, analyses,
                   astVars, ruffVars, remapVars, nbVars,
                   printVars, discoverVars, evalVars>>

\* Lines 112-127, and the return to the loop of walk_and_process.
StepReportPythonFile ==
    /\ At("analyze_python_file", "report")
    /\ stdout' = Emit(stdout,
                      python_file_report(files[pos].path, frame.contains_subprocess,
                                         frame.code_in_functions,
                                         frame.ruff_results, verbose_flag))
    /\ frame' = NoCall
    /\ pos' = pos + 1
    /\ UNCHANGED <<files, verbose_flag, status, dispatched, analyses,
                   astVars, ruffVars, remapVars, nbVars,
                   printVars, discoverVars, evalVars>>

\* Lines 85-102, and the return to the loop of walk_and_process.
StepReportNotebook ==
    /\ At("analyze_notebook", "report")
    /\ stdout' = Emit(stdout,
                      notebook_report(files[pos].path, frame.metrics,
                                      frame.ruff_results, verbose_flag))
    /\ frame' = NoCall
    /\ pos' = pos + 1
    /\ UNCHANGED <<files, verbose_flag, status, dispatched, analyses,
                   astVars, ruffVars, remapVars, nbVars,
                   printVars, discoverVars, evalVars>>

NextSteps ==
    \/ BeginAnalysis
    \/ StepContainsSubprocess
    \/ StepCodeInFunctions
    \/ StepProcessNotebook
    \/ StepRunRuff
    \/ StepProcessRuffResults
    \/ StepReportPythonFile
    \/ StepReportNotebook
    \/ WalkSkip
    \/ WalkDone

SpecSteps == InitRun /\ [][NextSteps]_vars

-----------------------------------------------------------------------------
(***************************************************************************)
(* evaluate_repo.py and repo.py: evaluate_repo, one statement at a time.   *)
(* The target is a directory holding a repository, a directory that holds  *)
(* none, a remote repository, or neither.  A repository is its local       *)
(* branches (heads), the branches of its remote (refs) and the branch      *)
(* checked out (active).                                                   *)
(***************************************************************************)
Branches == {"main", "dev", "feature"}

\* The default of the branch_name parameter (line 150) and of branchinfo
\* (line 149).
DefaultBranch == "main"
DefaultBranchInfo == FALSE

NoCheckout == [cloned |-> FALSE]

\* repo.py switch_branches: the repository after the call.
switch_branches(repo, target_branch) ==
    IF target_branch \in repo.heads
    THEN [repo EXCEPT !.active = target_branch]
    ELSE IF target_branch \in repo.refs
    THEN [repo EXCEPT !.active = target_branch,
                      !.heads = repo.heads \cup {target_branch}]
    ELSE repo

\* repo.py clone_repo: the clone of a remote repository has its default
\* branch checked out and knows every branch of the remote.
clone_repo(remote) ==
    [heads |-> {remote.active}, refs |-> remote.refs, active |-> remote.active]

\* The targets of a run.
LocalTargets ==
    UNION { { [kind |-> "directory", is_git_repo |-> TRUE,
               heads |-> heads, refs |-> refs, active |-> active] :
                heads \in { h \in SUBSET Branches : active \in h },
                refs \in SUBSET Branches } :
            active \in Branches }

RemoteTargets ==
    { [kind |-> "remote", refs |-> refs, active |-> DefaultBranch] :
        refs \in { r \in SUBSET Branches : DefaultBranch \in r } }

OtherTargets ==
    { [kind |-> "directory", is_git_repo |-> FALSE], [kind |-> "neither"] }

\* A call of evaluate_repo: its arguments and the statement it is at.
Call(path_or_url, start_date, verbose, branchinfo, branch_name) ==
    [path_or_url |-> path_or_url, start_date |-> start_date, verbose |-> verbose,
     branchinfo |-> branchinfo, branch_name |-> branch_name, pc |-> "isdir"]

(***************************************************************************)
(* SpecEvaluate: one call of evaluate_repo, as main makes it.              *)
(***************************************************************************)
InitEvaluate ==
    /\ \E target \in LocalTargets \cup RemoteTargets \cup OtherTargets,
          start_date \in StartDates(MaxDate), verbose \in BOOLEAN,
          branchinfo \in BOOLEAN, branch_name \in Branches :
          /\ request = Call(target, start_date, verbose, branchinfo, branch_name)
          /\ checkout = IF target.kind = "directory" /\ target.is_git_repo
                        THEN [heads |-> target.heads, refs |-> target.refs,
                              active |-> target.active]
                        ELSE NoCheckout
    /\ stack = <<request>>
    /\ events = <<>>
    /\ script = Idle /\ call = Idle
    /\ rawOutput = Idle /\ truncation = Idle
    /\ errors = Idle /\ original_path = Idle /\ remapped = Idle
    /\ notebook = Idle /\ nbCall = Idle
    /\ files = Idle /\ verbose_flag = Idle /\ pos = Idle
    /\ status = Idle /\ stdout = Idle /\ dispatched = Idle /\ analyses = Idle
    /\ findings = Idle /\ presented = Idle
    /\ worktree = Idle /\ commits = Idle /\ date_filter = Idle
    /\ frame = Idle

\* The call under way.
Top == stack[Len(stack)]

Running(pc) == stack # <<>> /\ Top.pc = pc

\* The call under way moves to a statement.
Goto(pc) == [stack EXCEPT ![Len(stack)].pc = pc]

\* Lines 154-157, 170 and 178-180: what the target is.  is_git_repo
\* raises for a directory that holds no repository; exit(1) ends the run.
EvalResolve ==
    /\ Running("isdir")
    /\ LET target == Top.path_or_url
       IN  IF target.kind = "directory"
           THEN IF target.is_git_repo
                THEN /\ stack' = Goto("switch_branches")
                     /\ events' = events
                ELSE /\ stack' = <<>>
                     /\ events' = Append(events, [k |-> "raise", exception |-> "Exception"])
           ELSE IF target.kind = "remote"
           THEN /\ stack' = Goto("clone_repo")
                /\ events' = events
           ELSE /\ stack' = <<>>
                /\ events' = Append(events, [k |-> "exit", code |-> 1])
    /\ UNCHANGED <<request, checkout, astVars, ruffVars, remapVars, nbVars,
                   runVars, printVars, discoverVars, stepVars>>

\* Line 159.
EvalSwitchBranches ==
    /\ Running("switch_branches")
    /\ checkout' = switch_branches(checkout, Top.branch_name)
    /\ events' = Append(events, [k |-> "switch_branches",
                                 target_branch |-> Top.branch_name])
    /\ stack' = Goto("branchinfo")
    /\ UNCHANGED <<request, astVars, ruffVars, remapVars, nbVars,
                   runVars, printVars, discoverVars, stepVars>>

\* Lines 161-163.
EvalBranchInfo ==
    /\ Running("branchinfo")
    /\ events' = events \o <<[k |-> "check_branch_names"]>>
                        \o (IF Top.branchinfo
                            THEN <<[k |-> "get_remote_branches_info"]>>
                            ELSE <<>>)
    /\ stack' = Goto("walk_and_process")
    /\ UNCHANGED <<request, checkout, astVars, ruffVars, remapVars, nbVars,
                   runVars, printVars, discoverVars, stepVars>>

\* Lines 165-169 and 181: the walk over the branch checked out, then the
\* return.
EvalWalk ==
    /\ Running("walk_and_process")
    /\ events' = Append(events, [k |-> "walk_and_process",
                                 branch |-> checkout.active,
                                 start_date |-> Top.start_date,
                                 verbose |-> Top.verbose])
    /\ stack' = SubSeq(stack, 1, Len(stack) - 1)
    /\ UNCHANGED <<request, checkout, astVars, ruffVars, remapVars, nbVars,
                   runVars, printVars, discoverVars, stepVars>>

\* Lines 171-176: the clone, and the call of evaluate_repo on it, which
\* passes start_date and verbose and leaves the other parameters to
\* their defaults.
EvalClone ==
    /\ Running("clone_repo")
    /\ checkout' = clone_repo(Top.path_or_url)
    /\ events' = Append(events, [k |-> "clone_repo"])
    /\ stack' = Append(Goto("rmtree"),
                       Call([kind |-> "directory", is_git_repo |-> TRUE],
                            Top.start_date, Top.verbose,
                            DefaultBranchInfo, DefaultBranch))
    /\ UNCHANGED <<request, astVars, ruffVars, remapVars, nbVars,
                   runVars, printVars, discoverVars, stepVars>>

\* Lines 177 and 181.
EvalRmtree ==
    /\ Running("rmtree")
    /\ checkout' = NoCheckout
    /\ events' = Append(events, [k |-> "rmtree"])
    /\ stack' = SubSeq(stack, 1, Len(stack) - 1)
    /\ UNCHANGED <<request, astVars, ruffVars, remapVars, nbVars,
                   runVars, printVars, discoverVars, stepVars>>

NextEvaluate ==
    \/ EvalResolve
    \/ EvalSwitchBranches
    \/ EvalBranchInfo
    \/ EvalWalk
    \/ EvalClone
    \/ EvalRmtree

SpecEvaluate == InitEvaluate /\ [][NextEvaluate]_vars

(***************************************************************************)
(* Claims about the structural checks, stated on the source lines of the   *)
(* script: the top-level statements are the lines of depth 0, and the      *)
(* first body statement of a parsed compound statement is the next line.   *)
(***************************************************************************)
Called(fn) == call.fn = fn

TopLevel(lines) == { i \in 1..Len(lines) : lines[i].depth = 0 }

\* A test that is exactly  __name__ == "__main__".
IsMainGuardTest(test) ==
    test = Compare(Name("__name__"), "Eq", Constant("str", "__main__"))

\* The shapes the encapsulation rule allows at module scope.
AllowedAtTopLevel(stmt) ==
    \/ stmt.type \in {"Import", "ImportFrom"}
    \/ stmt.type \in {"FunctionDef", "AsyncFunctionDef", "ClassDef"}
    \/ stmt.type = "If" /\ IsMainGuardTest(stmt.test)
    \/ stmt.type = "Expr" /\ stmt.value.type = "Constant"

\* C1: for a parseable script, is_code_in_functions_or_main returns True
\* exactly when every top-level statement is an import, a definition, the
\* main guard or a literal expression statement, and False otherwise.
C1_EncapsulationExact ==
    (Called("is_code_in_functions_or_main") /\ Parseable(script)) =>
        /\ call.res.outcome = "return"
        /\ call.res.value =
              IF \A i \in TopLevel(script) : AllowedAtTopLevel(script[i].stmt)
              THEN "True" ELSE "False"

\* The function definitions of a script that lack a docstring: the lines
\* that open a function or async function whose next line is not an
\* expression statement holding a string literal.
LacksDocstring(lines, i) ==
    /\ lines[i].stmt.type \in {"FunctionDef", "AsyncFunctionDef"}
    /\ ~ /\ lines[i + 1].stmt.type = "Expr"
         /\ lines[i + 1].stmt.value.type = "Constant"
         /\ lines[i + 1].stmt.value.kind = "str"

Occurrences(seq, x) == Cardinality({ k \in 1..Len(seq) : seq[k] = x })

\* C2: for a parseable script, functions_without_docstrings returns one
\* entry per function definition (nested and async ones included) whose
\* first body statement is not a string literal, and none for the others.
C2_UndocumentedExact ==
    (Called("functions_without_docstrings") /\ Parseable(script)) =>
        /\ call.res.outcome = "return"
        /\ \A name \in {"f", "g"} :
              Occurrences(call.res.value, name) =
                 Cardinality({ i \in 1..Len(script) :
                                 /\ LacksDocstring(script, i)
                                 /\ script[i].stmt.name = name })

\* A line that imports the module: a plain import naming it, alone, aliased
\* or among several names, or a from-import out of it.
ImportsModule(stmt, module) ==
    \/ /\ stmt.type = "Import"
       /\ \E k \in 1..Len(stmt.names) : stmt.names[k].name = module
    \/ /\ stmt.type = "ImportFrom"
       /\ stmt.module = module

\* C3: for a parseable script, code_contains_subprocess returns True if and
\* only if some statement, at any depth, imports subprocess.
C3_RestrictedImportIff ==
    (Called("code_contains_subprocess") /\ Parseable(script)) =>
        /\ call.res.outcome = "return"
        /\ call.res.value =
              IF \E i \in 1..Len(script) : ImportsModule(script[i].stmt, "subprocess")
              THEN "True" ELSE "False"

\* C3 witness: subprocess is imported second in one statement, nested in a
\* block and nowhere at the top level, and the check has returned True.
C3_Witness ==
    /\ Called("code_contains_subprocess")
    /\ Parseable(script)
    /\ call.res.value = "True"
    /\ \E i \in 1..Len(script) :
          /\ script[i].depth > 0
          /\ script[i].stmt.type = "Import"
          /\ Len(script[i].stmt.names) > 1
    /\ \A i \in TopLevel(script) : ~ImportsModule(script[i].stmt, "subprocess")

-----------------------------------------------------------------------------
(***************************************************************************)
(* Claims about the truncation of a tool output.                           *)
(***************************************************************************)
\* A summary line as the specification gives it: "Found <N> error",
\* singular or plural.
IsSummaryLine(line) ==
    /\ StartsWith(line, <<"F", "o", "u", "n", "d", " ">>)
    /\ \E n \in 1..Len(line) :
          /\ 6 + n <= Len(line)
          /\ \A k \in 7..(6 + n) : line[k] \in Digits
          /\ StartsWith(SubSeq(line, 7 + n, Len(line)),
                        <<" ", "e", "r", "r", "o", "r">>)

\* C4: process_ruff_results returns exactly the lines before the first
\* summary line "Found <N> error(s)", singular or plural, and the empty
\* sequence when there is none.
C4_TruncateAtSummary ==
    truncation.step >= 1 =>
        LET lines == Split(rawOutput)
            found == { k \in 1..Len(lines) : IsSummaryLine(lines[k]) }
        IN  IF found = {} THEN truncation.first = <<>>
            ELSE \E k \in found :
                    /\ \A h \in found : k <= h
                    /\ truncation.first = SubSeq(lines, 1, k - 1)

\* C5 as stated: truncating the truncated lines again returns the same
\* sequence of lines.
C5_Idempotent ==
    truncation.step = 2 => truncation.second = truncation.first

\* C5 amended: the truncated lines hold no summary line, so truncating
\* them again returns the empty sequence; it is the same sequence only
\* when the first truncation returned no line.
C5_SecondTruncationEmpty ==
    truncation.step = 2 =>
        /\ truncation.second = <<>>
        /\ (truncation.second = truncation.first) <=> (truncation.first = <<>>)

\* C5 witness: a first truncation that kept two findings has been
\* truncated again.
C5_Witness ==
    /\ truncation.step = 2
    /\ Len(truncation.first) = 2
    /\ truncation.first[1] # <<>>

-----------------------------------------------------------------------------
(***************************************************************************)
(* Claims about the conversion of derived paths.                           *)
(***************************************************************************)
\* C6: for every list of lines <derived>:<line>:<col>: <msg>,
\* convert_temp_names_to_originals returns a list of the same length and
\* order whose lines are exactly <original>:<line>:<col>: <msg>.
C6_RemapPath ==
    remapped.done =>
        /\ Len(remapped.lines) = Len(errors)
        /\ \A i \in 1..Len(errors) :
              remapped.lines[i] =
                 FindingText(original_path, errors[i].line, errors[i].col, errors[i].msg)

\* C6 restricted to derived paths without a colon, which the code converts
\* as the claim says.
C6_RemapPathWithoutColon ==
    remapped.done =>
        /\ Len(remapped.lines) = Len(errors)
        /\ \A i \in 1..Len(errors) :
              Find(errors[i].derived, ":") = -1 =>
                 remapped.lines[i] =
                    FindingText(original_path, errors[i].line, errors[i].col, errors[i].msg)

-----------------------------------------------------------------------------
(***************************************************************************)
(* Claims about the notebook metrics and their thresholds.                 *)
(***************************************************************************)
\* A well-formed notebook: a JSON object with a list of cells, each with a
\* cell type and source lines.
WellFormed(doc) ==
    /\ doc.json
    /\ "cells" \in DOMAIN doc
    /\ \A i \in 1..Len(doc.cells) :
          {"cell_type", "source"} \subseteq DOMAIN doc.cells[i]

IsCode(cell) == cell.cell_type = "code"

\* The notebook without its cells that are not Code cells.
CodeCellsOnly(doc) == [json |-> TRUE, cells |-> SelectSeq(doc.cells, IsCode)]

\* C7: for a well-formed notebook, max_lines_in_cell <= num_lines; num_cells
\* counts the cells of every type; the cells that are not Code cells add
\* nothing to the line and function counts; and without a Code cell the
\* three counts are 0.
C7_NotebookMetrics ==
    (nbCall.fn = "process_notebook" /\ WellFormed(notebook)) =>
        /\ nbCall.res.outcome = "return"
        /\ LET m    == nbCall.res.value
               code == process_notebook(CodeCellsOnly(notebook)).value
           IN  /\ m.max_lines_in_cell <= m.num_lines
               /\ m.num_cells = Len(notebook.cells)
               /\ m.num_lines = code.num_lines
               /\ m.num_functions = code.num_functions
               /\ m.max_lines_in_cell = code.max_lines_in_cell
               /\ CodeCellsOnly(notebook).cells = <<>> =>
                     /\ m.num_lines = 0
                     /\ m.num_functions = 0
                     /\ m.max_lines_in_cell = 0

\* C7 witness: a processed notebook with a text cell that holds lines and
\* several Code cells, the longest of them shorter than all together.
C7_Witness ==
    /\ nbCall.fn = "process_notebook"
    /\ WellFormed(notebook)
    /\ \E i \in 1..Len(notebook.cells) :
          /\ ~IsCode(notebook.cells[i])
          /\ NonBlankLines(notebook.cells[i].source) > 0
    /\ Len(CodeCellsOnly(notebook).cells) > 1
    /\ 0 < nbCall.res.value.max_lines_in_cell
    /\ nbCall.res.value.max_lines_in_cell < nbCall.res.value.num_lines

\* The positions of the printed lines with message kind.
Reported(printed, kind) == { i \in 1..Len(printed) : printed[i].k = kind }

\* C8: analyze_notebook reports a threshold violation for a metric if and
\* only if the metric strictly exceeds its threshold (cells > 10, lines in
\* one cell > 15, function definitions > 0), each independently and with
\* the measured value; 12 one-line Code cells without a function definition
\* report only the cell count, 12.
C8_ThresholdViolations ==
    (nbCall.fn = "analyze_notebook" /\ WellFormed(notebook)) =>
        /\ nbCall.res.outcome = "return"
        /\ LET out == nbCall.res.printed
               m   == process_notebook(notebook).value
               cells == Reported(out, "Max number of cells exceeded")
               lines == Reported(out, "Max number of lines per cell exceeded")
               funcs == Reported(out, "Function definitions detected")
           IN  /\ Cardinality(cells) = IF Len(notebook.cells) > 10 THEN 1 ELSE 0
               /\ \A i \in cells : out[i].n = Len(notebook.cells)
               /\ Cardinality(lines) = IF m.max_lines_in_cell > 15 THEN 1 ELSE 0
               /\ \A i \in lines : out[i].n = m.max_lines_in_cell
               /\ Cardinality(funcs) = IF m.num_functions > 0 THEN 1 ELSE 0
               /\ \A i \in funcs : out[i].n = m.num_functions
               /\ notebook.cells = Repeat([cell_type |-> "code", source |-> <<CodeLine>>], 12) =>
                     /\ \E i \in cells : out[i].n = 12
                     /\ lines = {}
                     /\ funcs = {}

\* C8 witness: a notebook of 12 one-line Code cells has been analyzed and
\* the cell count 12 reported.
C8_Witness ==
    /\ nbCall.fn = "analyze_notebook"
    /\ WellFormed(notebook)
    /\ notebook.cells = Repeat([cell_type |-> "code", source |-> <<CodeLine>>], 12)
    /\ \E i \in 1..Len(nbCall.res.printed) :
          nbCall.res.printed[i] = [k |-> "Max number of cells exceeded", n |-> 12]

-----------------------------------------------------------------------------
(***************************************************************************)
(* Claims about a run over the files to process.                           *)
(***************************************************************************)
IsScriptFile(file) == file.exists /\ "lines" \in DOMAIN file

IsNotebookFile(file) == file.exists /\ "doc" \in DOMAIN file

RunEnded == status.state \in {"done", "crashed"}

\* The run did not end at file i, and once it has ended every script and
\* notebook after file i has been analyzed.
SurvivesFile(i) ==
    /\ ~(status.state = "crashed" /\ status.at = i)
    /\ RunEnded =>
          \A j \in (i + 1)..Len(files) :
             (IsScriptFile(files[j]) \/ IsNotebookFile(files[j])) =>
                \E d \in 1..Len(dispatched) : dispatched[d] = j

\* C9: a script that cannot be parsed does not abort the run: its checks
\* report the failure and every file after it is still analyzed.
C9_UnparseableScriptNotFatal ==
    \A i \in 1..Len(files) :
       (IsScriptFile(files[i]) /\ ~Parseable(files[i].lines)) => SurvivesFile(i)

\* C10: a malformed notebook is skipped and reported for that file only:
\* the run is not aborted and every file after it is still analyzed.
C10_MalformedNotebookNotFatal ==
    \A i \in 1..Len(files) :
       (IsNotebookFile(files[i]) /\ ~WellFormed(files[i].doc)) => SurvivesFile(i)

-----------------------------------------------------------------------------
(***************************************************************************)
(* Claims about the report of a run.                                       *)
(***************************************************************************)
\* The findings of a script for which the tool wrote ruff_output: a
\* non-empty tool result, a restricted import, or a result of the
\* encapsulation check other than True.
ScriptHasFinding(file, ruff_output) ==
    \/ process_ruff_results(ruff_output) # <<>>
    \/ code_contains_subprocess(file.lines).value = "True"
    \/ is_code_in_functions_or_main(file.lines).value # "True"

\* The findings of a notebook: a non-empty tool result or a metric over
\* its threshold.
NotebookHasFinding(file, ruff_output) ==
    LET m == process_notebook(file.doc).value
    IN  \/ process_ruff_results(ruff_output) # <<>>
        \/ m.num_cells > 10
        \/ m.max_lines_in_cell > 15
        \/ m.num_functions > 0

HasFinding(a) ==
    IF IsScriptFile(files[a.at])
    THEN ScriptHasFinding(files[a.at], a.ruff_output)
    ELSE NotebookHasFinding(files[a.at], a.ruff_output)

SectionHeaders(printed) ==
    { i \in 1..Len(printed) : printed[i].k = "Analyzing" }

Separators(printed) ==
    { i \in 1..Len(printed) : printed[i].k = "separator" }

\* The lines hold one section for the path, from its header to the
\* separator that ends them.
OneSection(printed, path) ==
    \E i \in 1..Len(printed) :
       /\ printed[i] = [k |-> "Analyzing", path |-> path]
       /\ SectionHeaders(printed) = {i}
       /\ Separators(printed) = {Len(printed)}
       /\ i < Len(printed)

\* C11: every file whose analysis completed has a report section, from the
\* header to the separator, exactly when it produced a finding, and a file
\* without a finding printed nothing at all.
C11_SectionIffFinding ==
    \A d \in 1..Len(analyses) :
       LET a == analyses[d]
       IN  a.res.outcome = "return" =>
              IF HasFinding(a)
              THEN OneSection(a.res.printed, files[a.at].path)
              ELSE a.res.printed = <<>>

\* C11 witness: a run analyzed a file with a finding, whose section was
\* printed, and a file without one, which printed nothing.
C11_Witness ==
    /\ status.state = "done"
    /\ \E d \in 1..Len(analyses) :
          /\ HasFinding(analyses[d])
          /\ OneSection(analyses[d].res.printed, files[analyses[d].at].path)
    /\ \E d \in 1..Len(analyses) :
          /\ ~HasFinding(analyses[d])
          /\ analyses[d].res.printed = <<>>

-----------------------------------------------------------------------------
(***************************************************************************)
(* Claims about the presentation of the results of one tool.               *)
(***************************************************************************)
Min(a, b) == IF a <= b THEN a ELSE b

\* Lines 2 to count + 1 of the output are the first count results, in
\* their order.
ShowsFirst(out, count) ==
    /\ Len(out) >= count + 1
    /\ \A i \in 1..count : out[i + 1] = [k |-> "result", text |-> findings[i]]

\* C12: for a non-empty list of n results the header states n; when not
\* verbose the first min(5, n) results follow in their order, and then a
\* remainder line stating n - 5 exactly when n > 5; when verbose all n
\* results follow and no remainder line.
C12_PresentResults ==
    (presented # NoCall /\ findings # <<>>) =>
        LET n == Len(findings)
            out == presented.printed
        IN  /\ out[1] = [k |-> "found", tool |-> presented.tool_name, n |-> n]
            /\ IF presented.verbose
               THEN /\ ShowsFirst(out, n)
                    /\ Len(out) = n + 1
               ELSE /\ ShowsFirst(out, Min(5, n))
                    /\ IF n > 5
                       THEN /\ Len(out) = 5 + 2
                            /\ out[5 + 2] = [k |-> "more", n |-> n - 5]
                       ELSE Len(out) = n + 1

\* C12 witness: seven results were printed without the verbose flag, five
\* of them shown and two counted as the remainder.
C12_Witness ==
    /\ presented # NoCall
    /\ ~presented.verbose
    /\ Len(findings) = 7
    /\ Len(presented.printed) = 7
    /\ presented.printed[7] = [k |-> "more", n |-> 2]

-----------------------------------------------------------------------------
(***************************************************************************)
(* Claims about the discovery of the files to process.                     *)
(***************************************************************************)
\* The candidate paths of the run: the files of the tree or, with a start
\* date, the files touched by the commits after it.
Candidates ==
    IF ~date_filter.given
    THEN { JoinPath(RepoDir, worktree[i]) : i \in 1..Len(worktree) }
    ELSE UNION { { JoinPath(RepoDir, commits[c].files[i]) :
                     i \in 1..Len(commits[c].files) } :
                 c \in { k \in 1..Len(commits) :
                           commits[k].committed_date > date_filter.date } }

\* The path lies under one of the ignored directories.
UnderIgnoredMarker(path) ==
    \/ Contains(path, <<"_", "_", "p", "y", "c", "a", "c", "h", "e", "_", "_">>)
    \/ Contains(path, <<"D", "S", "_", "S", "t", "o", "r", "e">>)
    \/ Contains(path, <<"i", "p", "y", "n", "b", "_", "c", "h", "e", "c", "k",
                        "p", "o", "i", "n", "t", "s">>)

Eligible(path) == EndsWith(path, DotPy) \/ EndsWith(path, DotIpynb)

DispatchesOf(path) ==
    { d \in 1..Len(dispatched) : files[dispatched[d]].path = path }

\* No path under an ignored directory is ever handed to an analyzer.
IgnoredNeverDispatched ==
    \A d \in 1..Len(dispatched) : ~UnderIgnoredMarker(files[dispatched[d]].path)

\* Once the walk is done every other existing script or notebook of the
\* candidates has been handed to an analyzer once.
OthersDispatchedOnce ==
    status.state = "done" =>
       \A path \in Candidates :
          (Eligible(path) /\ Exists(path, worktree) /\ ~UnderIgnoredMarker(path))
             => Cardinality(DispatchesOf(path)) = 1

\* C13: in both discovery modes no path under an ignored directory is
\* handed to an analyzer, and every other existing script or notebook of
\* the candidates is handed over exactly once.
C13_IgnoredPathsExcluded ==
    /\ IgnoredNeverDispatched
    /\ OthersDispatchedOnce

\* The same for the runs without a start date, which walk the tree.
C13_TreeWalk ==
    ~date_filter.given => (IgnoredNeverDispatched /\ OthersDispatchedOnce)

-----------------------------------------------------------------------------
(***************************************************************************)
(* Claims about when the section of a file is written.                     *)
(***************************************************************************)
\* The lines printed outside the sections: by walk_and_process before the
\* loop, and by the structural checks.
IsSectionLine(line) ==
    line.k \notin {"Currently analyzing branch", "An unexpected error occurred",
                   "SyntaxError while parsing file"}

\* The paths of the section headers of the output, in their order.
RECURSIVE HeaderPaths(_)
HeaderPaths(out) ==
    IF out = <<>> THEN <<>>
    ELSE (IF Head(out).k = "Analyzing" THEN <<Head(out).path>> ELSE <<>>)
         \o HeaderPaths(Tail(out))

\* The paths of the files before position p, in their order.
PathsBefore(p) == [i \in 1..(p - 1) |-> files[i].path]

\* a is b with some of its elements left out.
RECURSIVE IsSubsequence(_, _)
IsSubsequence(a, b) ==
    IF a = <<>> THEN TRUE
    ELSE IF b = <<>> THEN FALSE
    ELSE IF Head(a) = Head(b) THEN IsSubsequence(Tail(a), Tail(b))
    ELSE IsSubsequence(a, Tail(b))

\* From line i on every section line of the output lies in a section that
\* a header opens and a separator closes; inside tells whether line i
\* lies in one.
RECURSIVE WholeSections(_, _, _)
WholeSections(out, i, inside) ==
    IF i > Len(out) THEN ~inside
    ELSE IF out[i].k = "Analyzing" THEN ~inside /\ WholeSections(out, i + 1, TRUE)
    ELSE IF out[i].k = "separator" THEN inside /\ WholeSections(out, i + 1, FALSE)
    ELSE (IsSectionLine(out[i]) => inside) /\ WholeSections(out, i + 1, inside)

\* C14: at every point of a run the sections written are whole and are
\* those of files whose analysis has completed, in the order of the files:
\* while a file is being analyzed, and after one of its steps failed with
\* an uncaught error, the output holds no part of a section for it.
C14_SectionAfterAnalysis ==
    /\ IsSubsequence(HeaderPaths(stdout), PathsBefore(pos))
    /\ WholeSections(stdout, 1, FALSE)

\* C14 witness: a step of the second file failed with an uncaught error
\* after the section of the first file was written.
C14_Witness ==
    /\ status.state = "crashed"
    /\ status.at = 2
    /\ frame # NoCall
    /\ HeaderPaths(stdout) = <<files[1].path>>

-----------------------------------------------------------------------------
(***************************************************************************)
(* Claims about the branch evaluated.                                      *)
(***************************************************************************)
\* What evaluating a local repository does, up to its return: the switch
\* to the branch asked for, the branch check, the branch information when
\* asked for, and the walk over the branch then checked out.
LocalEvaluation(repo, start_date, verbose, branchinfo, branch_name) ==
    <<[k |-> "switch_branches", target_branch |-> branch_name],
      [k |-> "check_branch_names"]>>
    \o (IF branchinfo THEN <<[k |-> "get_remote_branches_info"]>> ELSE <<>>)
    \o <<[k |-> "walk_and_process",
          branch |-> switch_branches(repo, branch_name).active,
          start_date |-> start_date, verbose |-> verbose]>>

\* The events of a run without the clone and its removal.
RECURSIVE WithoutClone(_)
WithoutClone(evs) ==
    IF evs = <<>> THEN <<>>
    ELSE (IF Head(evs).k \in {"clone_repo", "rmtree"} THEN <<>> ELSE <<Head(evs)>>)
         \o WithoutClone(Tail(evs))

Evaluated ==
    /\ stack = <<>>
    /\ \E i \in 1..Len(events) : events[i].k = "walk_and_process"

\* C15: a run that evaluated a repository switched to the branch the
\* caller asked for and reported the branch information exactly when the
\* caller asked for it, for a local repository and for a remote one: the
\* run on a remote repository did what the run on its clone does with the
\* same start date, verbosity, branch name and branch-info flag.
C15_RequestedBranch ==
    Evaluated =>
       LET target == request.path_or_url
           repo == IF target.kind = "remote" THEN clone_repo(target)
                   ELSE [heads |-> target.heads, refs |-> target.refs,
                         active |-> target.active]
       IN  WithoutClone(events) =
              LocalEvaluation(repo, request.start_date, request.verbose,
                              request.branchinfo, request.branch_name)

\* The same for the runs on a local repository.
C15_LocalTarget ==
    (Evaluated /\ request.path_or_url.kind = "directory") =>
       WithoutClone(events) =
          LocalEvaluation([heads |-> request.path_or_url.heads,
                           refs |-> request.path_or_url.refs,
                           active |-> request.path_or_url.active],
                          request.start_date, request.verbose,
                          request.branchinfo, request.branch_name)

=============================================================================
